---- MODULE Spec2Model ----
(***************************************************************************)
(* Recording lifecycle (RecordingService), upload on completion            *)
(* (S3Service.uploadFile) and schedule dispatch (SchedulerService,         *)
(* ScheduleController.executeSchedule, RecordingController) of the         *)
(* footballrec backend, as a state machine.  Every await of the source is  *)
(* a point where other handlers may run; the code between two awaits is    *)
(* one atomic step.                                                        *)
(***************************************************************************)
EXTENDS Integers, Sequences, FiniteSets, TLC

\* ---------------------------------------------------------------- bounds
MaxProcs == 2        \* capture processes launched in one behaviour
MaxTime  == 1        \* the clock runs over 0..MaxTime (minutes)

\* ------------------------------------------------------- program constants
Lookahead == 5       \* minutes: 5 * 60 * 1000 ms
AutoStartLead == 5   \* minutes: .subtract(5, 'minutes')
AutoEndLag == 120    \* minutes: .add(2, 'hours')
maxDuration == 0     \* MAX_RECORDING_DURATION configured below one unit of the clock
                     \* (a positive number of ms; unset it is 7200000)

\* ------------------------------------------------------------ universes
Recs      == {"R1", "R2"}          \* recording identifiers (R2 is the uuid the dispatcher creates)
Scheds    == {"S1", "S2"}          \* schedule rows
ApiCallers == {"a1", "a2"}         \* HTTP requests in flight on the recordings API
Ticks     == {"t1", "t2"}          \* invocations of the cron callback
Manuals   == {"m1"}                \* HTTP request execute-now
Dispatchers == Ticks \cup Manuals
Generators == {"g1"}               \* runs of fetchUpcomingMatches
Callers   == ApiCallers \cup Dispatchers \cup Generators

Matches   == {"M1"}                \* match rows: M1 is "Home vs Away"
NULL      == <<>>                  \* SQL NULL of file_path and s3_key
NoError   == "none"                \* SQL NULL of error_message
NoRec     == "NULL"                \* SQL NULL of schedules.recording_id
NoMatch   == "NULL"                \* SQL NULL of schedules.match_id
NoTime    == -1                    \* SQL NULL of schedules.scheduled_end

RecStates == {"absent", "pending", "recording", "completed", "failed", "stopped"}
Terminal  == {"completed", "failed", "stopped"}

VARIABLES
  recStatus,         \* recordings.status, "absent" when the row does not exist
  recFilePath,       \* recordings.file_path
  recS3Key,          \* recordings.s3_key
  recError,          \* recordings.error_message
  recTitle,          \* recordings.title
  activeRecordings,  \* RecordingService.activeRecordings: id -> process (0 = no entry)
  procs,             \* every ffmpeg command launched so far
  files,             \* paths present on the local disk
  now,               \* the clock
  schStatus,         \* schedules.status
  schRecId,          \* schedules.recording_id
  schMatch,          \* schedules.match_id
  schStart,          \* schedules.scheduled_start
  schEnd,            \* schedules.scheduled_end
  schAuto,           \* schedules.auto_generated
  matchAutoRecord,   \* matches.auto_record
  timers,            \* pending setTimeout callbacks of scheduleRecordingStop
  pc,                \* position of each caller
  cRec,              \* the recording a caller works on
  cSnap,             \* the row a caller read (status of the recording or of the schedule)
  cSched,            \* the schedule a dispatcher is executing
  queue,             \* the rows a tick selected and has not executed yet
  tickNow,           \* `now` of checkScheduledRecordings, per tick
  result,            \* what the last finished call of a caller returned
  startCalls,        \* observation: calls of startRecording made per schedule
  claimed,           \* observation: dispatchers that went past the Executing update, per schedule
  lateSeen,          \* observation: Pending schedules already past their start when a tick began, per tick
  concurrent         \* observation: pairs of callers whose Start calls for one id overlapped

recVars  == <<recStatus, recFilePath, recS3Key, recError, recTitle>>
schVars  == <<schStatus, schRecId, schMatch, schStart, schEnd, schAuto, matchAutoRecord>>
obsVars  == <<startCalls, claimed, lateSeen, concurrent>>
vars == <<recStatus, recFilePath, recS3Key, recError, recTitle, activeRecordings, procs,
          files, now, schStatus, schRecId, schMatch, schStart, schEnd, schAuto,
          matchAutoRecord, timers, pc, cRec, cSnap, cSched, queue, tickNow, result,
          startCalls, claimed, lateSeen, concurrent>>

\* ------------------------------------------------------------- helpers
\* filePath = <recordingsPath>/<id>_<YYYYMMDD_HHmmss>.<format>
FilePath(r, t) == <<r, t>>

\* s3Key = `recordings/${path.basename(filePath)}`
S3Key(path) == <<"recordings">> \o path

ProcIds == 1..Len(procs)

Running(r) == {p \in ProcIds : procs[p].rec = r /\ procs[p].st = "running"}

\* handleRecordingError(recordingId, errorMessage): the registry entry of the
\* identifier is deleted and the row is marked failed with the message.
\* handleRecordingError without its this.activeRecordings.delete(recordingId)
ErrRegistryKeeps(r) == activeRecordings

ErrRegistry(r) == [activeRecordings EXCEPT ![r] = 0]
ErrStatus(r)   == [recStatus EXCEPT ![r] = IF @ = "absent" THEN @ ELSE "failed"]
ErrMessage(r, msg) == [recError EXCEPT ![r] = IF recStatus[r] = "absent" THEN @ ELSE msg]

InitCommon ==
  /\ recStatus = [r \in Recs |-> IF r = "R1" THEN "pending" ELSE "absent"]
  /\ recFilePath = [r \in Recs |-> NULL]
  /\ recS3Key = [r \in Recs |-> NULL]
  /\ recError = [r \in Recs |-> NoError]
  /\ recTitle = [r \in Recs |-> IF r = "R1" THEN <<"Cup final">> ELSE <<>>]
  /\ activeRecordings = [r \in Recs |-> 0]
  /\ procs = <<>>
  /\ files = {}
  /\ now = 0
  /\ timers = {}
  /\ pc = [c \in Callers |-> "idle"]
  /\ cRec = [c \in Callers |-> "R1"]
  /\ cSnap = [c \in Callers |-> "absent"]
  /\ cSched = [c \in Callers |-> "S1"]
  /\ queue = [c \in Ticks |-> {}]
  /\ tickNow = [c \in Ticks |-> 0]
  /\ result = [c \in Callers |-> "none"]
  /\ startCalls = [s \in Scheds |-> 0]
  /\ claimed = [s \in Scheds |-> {}]
  /\ lateSeen = [c \in Ticks |-> {}]
  /\ concurrent = {}
  /\ schAuto = [s \in Scheds |-> FALSE]
  /\ matchAutoRecord = [m \in Matches |-> FALSE]

\* The recordings API only: no schedule is due, the dispatcher never runs.
InitService ==
  /\ InitCommon
  /\ schStatus = [s \in Scheds |-> "completed"]
  /\ schRecId = [s \in Scheds |-> NoRec]
  /\ schMatch = [s \in Scheds |-> NoMatch]
  /\ schStart = [s \in Scheds |-> 0]
  /\ schEnd = [s \in Scheds |-> NoTime]

\* ------------------------------------------------ RecordingService.startRecording
\* A caller enters startRecording(r): calls of other callers that are between
\* the registry check and command.run() for the same identifier overlap it.
Overlaps(c, r) ==
  {pr \in concurrent : c \notin pr}
    \cup {{c, d} : d \in {e \in Callers \ {c} : pc[e] = "launch" /\ cRec[e] = r}}

Forget(c) == {pr \in concurrent : c \notin pr}

\* if (this.activeRecordings.has(id)) throw new Error('Recording is already active')
AlreadyActive(r) == activeRecordings[r] # 0

\* startRecording up to its first await: the registry check, then either the
\* catch block (handleRecordingError, rethrow) or the UPDATE to 'recording'.
\* ko is the position the caller moves to when the check throws.
SvcStartEnter(c, r, ko) ==
  /\ cRec' = [cRec EXCEPT ![c] = r]
  /\ concurrent' = Overlaps(c, r)
  /\ IF AlreadyActive(r)
       THEN /\ activeRecordings' = ErrRegistry(r)
            /\ recStatus' = ErrStatus(r)
            /\ recError' = ErrMessage(r, "Recording is already active")
            /\ result' = [result EXCEPT ![c] = "AlreadyActive"]
            /\ pc' = [pc EXCEPT ![c] = ko]
       ELSE /\ recStatus' = [recStatus EXCEPT ![r] = IF @ = "absent" THEN @ ELSE "recording"]
            /\ result' = [result EXCEPT ![c] = "none"]
            /\ pc' = [pc EXCEPT ![c] = "launch"]
            /\ UNCHANGED <<activeRecordings, recError>>
  /\ UNCHANGED <<recFilePath, recS3Key, recTitle, procs, files>>

\* the rest of startRecording: the ffmpeg command is built and run(); the call
\* returns { success: true }.  The process registers itself on its 'start' event.
\* let startTime = Date.now() is taken as the handlers are set up.
NewProc(r) == [rec |-> r, path |-> FilePath(r, now), st |-> "launching", startTime |-> now]

SvcLaunchEff(c) ==
  /\ Len(procs) < MaxProcs
  /\ procs' = Append(procs, NewProc(cRec[c]))
  /\ result' = [result EXCEPT ![c] = "ok"]

\* ------------------------------------------- RecordingController.startRecording
\* const recording = await recordingService.getRecordingById(id)
CtlStartRead(c, r) ==
  /\ c \in ApiCallers
  /\ pc[c] = "idle"
  /\ pc' = [pc EXCEPT ![c] = "ctl"]
  /\ cRec' = [cRec EXCEPT ![c] = r]
  /\ cSnap' = [cSnap EXCEPT ![c] = recStatus[r]]
  /\ result' = [result EXCEPT ![c] = "none"]
  /\ concurrent' = Forget(c)
  /\ UNCHANGED <<recVars, activeRecordings, procs, files, now, schVars, timers,
                 cSched, queue, tickNow, startCalls, claimed, lateSeen>>

\* the 404 / 'already active' / 'already completed' answers, else the service call
CtlStartCheck(c) ==
  /\ c \in ApiCallers
  /\ pc[c] = "ctl"
  /\ IF cSnap[c] \in {"absent", "recording", "completed"}
       THEN /\ result' = [result EXCEPT ![c] =
                 CASE cSnap[c] = "absent" -> "NotFound"
                   [] cSnap[c] = "recording" -> "AlreadyActive"
                   [] cSnap[c] = "completed" -> "AlreadyTerminal"]
            /\ pc' = [pc EXCEPT ![c] = "idle"]
            /\ UNCHANGED <<recVars, activeRecordings, procs, files, cRec, concurrent>>
       ELSE SvcStartEnter(c, cRec[c], "idle")
  /\ cSnap' = [cSnap EXCEPT ![c] = "absent"]
  /\ UNCHANGED <<now, schVars, timers, cSched, queue, tickNow, startCalls, claimed, lateSeen>>

ApiLaunch(c) ==
  /\ c \in ApiCallers
  /\ pc[c] = "launch"
  /\ SvcLaunchEff(c)
  /\ pc' = [pc EXCEPT ![c] = "idle"]
  /\ UNCHANGED <<recVars, activeRecordings, files, now, schVars, timers,
                 cRec, cSnap, cSched, queue, tickNow, obsVars>>

\* ------------------------------------------------- RecordingService.stopRecording
\* command.kill('SIGTERM') on the registered command
Kill(p) == [procs EXCEPT ![p].st = IF @ = "running" THEN "signalled" ELSE @]

StopMissing(r) == activeRecordings[r] = 0

\* what stopRecording(r) returns, or the message it throws
StopResult(r) == IF StopMissing(r) THEN "NotActive" ELSE "stopped"

\* stopRecording with the UPDATE to 'stopped' issued before the registry lookup
StopRecordingUpdatesFirst(r) ==
  /\ recStatus' = [recStatus EXCEPT ![r] = IF @ = "absent" THEN @ ELSE "stopped"]
  /\ UNCHANGED <<recFilePath, recS3Key, recError, recTitle>>
  /\ IF StopMissing(r)
       THEN UNCHANGED <<activeRecordings, procs>>
       ELSE /\ procs' = Kill(activeRecordings[r])
            /\ activeRecordings' = [activeRecordings EXCEPT ![r] = 0]

\* stopRecording without its this.activeRecordings.delete(recordingId)
StopRecordingKeepsEntry(r) ==
  IF StopMissing(r)
    THEN UNCHANGED <<recVars, activeRecordings, procs>>
    ELSE /\ procs' = Kill(activeRecordings[r])
         /\ UNCHANGED activeRecordings
         /\ recStatus' = [recStatus EXCEPT ![r] = IF @ = "absent" THEN @ ELSE "stopped"]
         /\ UNCHANGED <<recFilePath, recS3Key, recError, recTitle>>

\* stopRecording(r): its effect on the processes, the registry and the rows
StopRecording(r) ==
  IF StopMissing(r)
    THEN UNCHANGED <<recVars, activeRecordings, procs>>
    ELSE /\ procs' = Kill(activeRecordings[r])
         /\ activeRecordings' = [activeRecordings EXCEPT ![r] = 0]
         /\ recStatus' = [recStatus EXCEPT ![r] = IF @ = "absent" THEN @ ELSE "stopped"]
         /\ UNCHANGED <<recFilePath, recS3Key, recError, recTitle>>

\* RecordingController.stopRecording
ApiStop(c, r) ==
  /\ c \in ApiCallers
  /\ pc[c] = "idle"
  /\ StopRecording(r)
  /\ result' = [result EXCEPT ![c] = StopResult(r)]
  /\ cRec' = [cRec EXCEPT ![c] = r]
  /\ concurrent' = Forget(c)
  /\ UNCHANGED <<files, now, schVars, timers, pc, cSnap, cSched, queue, tickNow,
                 startCalls, claimed, lateSeen>>

\* ------------------------------------------------------ ffmpeg command events
\* A process is "launching" from command.run() to its 'start' event, then
\* "running", "signalled" once it got SIGTERM, "uploading" while the 'end'
\* handler awaits the upload, and "exited" when nothing of it is left.
Exited(p) == [rec |-> procs[p].rec, path |-> NULL, st |-> "exited", startTime |-> NoTime]

\* .on('start'): this.activeRecordings.set(id, { command, filePath, startTime, title })
OnStart(p) ==
  /\ p \in ProcIds
  /\ procs[p].st = "launching"
  /\ procs' = [procs EXCEPT ![p].st = "running"]
  /\ activeRecordings' = [activeRecordings EXCEPT ![procs[p].rec] = p]
  /\ files' = files \cup {procs[p].path}
  /\ UNCHANGED <<recVars, now, schVars, timers, pc, cRec, cSnap, cSched, queue, tickNow,
                 result, obsVars>>

\* .on('progress'): duration = Date.now() - startTime; when it is over
\* maxDuration, this.stopRecording(id) is called, not awaited: with no registry
\* entry its rejection is nobody's, and nothing changes.  A process that got
\* SIGTERM may still report progress before it exits.
OnProgress(p) ==
  /\ p \in ProcIds
  /\ procs[p].st \in {"running", "signalled"}
  /\ now - procs[p].startTime > maxDuration
  /\ StopRecording(procs[p].rec)
  /\ UNCHANGED <<files, now, schVars, timers, pc, cRec, cSnap, cSched, queue, tickNow,
                 result, obsVars>>

\* .on('error'): await this.handleRecordingError(id, err.message)
OnError(p) ==
  /\ p \in ProcIds
  /\ procs[p].st \in {"launching", "running", "signalled"}
  /\ procs' = [procs EXCEPT ![p] = Exited(p)]
  /\ activeRecordings' = ErrRegistry(procs[p].rec)
  /\ recStatus' = ErrStatus(procs[p].rec)
  /\ recError' = ErrMessage(procs[p].rec, "ffmpeg error")
  /\ UNCHANGED <<recFilePath, recS3Key, recTitle, files, now, schVars, timers, pc, cRec,
                 cSnap, cSched, queue, tickNow, result, obsVars>>

\* .on('end'): handleRecordingComplete up to the upload: the registry entry is
\* deleted, fs.stat(filePath) throws when the file is gone (catch:
\* handleRecordingError), otherwise s3Service.uploadFile is awaited.
OnEnd(p) ==
  /\ p \in ProcIds
  /\ procs[p].st \in {"running", "signalled"}
  /\ activeRecordings' = [activeRecordings EXCEPT ![procs[p].rec] = 0]
  /\ IF procs[p].path \in files
       THEN /\ procs' = [procs EXCEPT ![p].st = "uploading"]
            /\ UNCHANGED <<recStatus, recError>>
       ELSE /\ procs' = [procs EXCEPT ![p] = Exited(p)]
            /\ recStatus' = ErrStatus(procs[p].rec)
            /\ recError' = ErrMessage(procs[p].rec, "ENOENT")
  /\ UNCHANGED <<recFilePath, recS3Key, recTitle, files, now, schVars, timers, pc, cRec,
                 cSnap, cSched, queue, tickNow, result, obsVars>>

\* S3Service.uploadFile: { success: true, key, url } or, on any error (file
\* missing, store unreachable), { success: false, error }; it never throws.
UploadFile(path, storeUp) ==
  IF path \in files /\ storeUp
    THEN [success |-> TRUE, key |-> S3Key(path)]
    ELSE [success |-> FALSE, key |-> NULL]

\* the status handleRecordingComplete writes once uploadFile has returned
CompletionStatus(s3Result) == "completed"

\* handleRecordingComplete writing no file_path at all
CompletionFilePathCleared(path, s3Result) == NULL

\* the file_path handleRecordingComplete writes
CompletionFilePath(path, s3Result) == path

\* handleRecordingComplete after the upload: the UPDATE of the row, then
\* fs.unlink(filePath) if s3Result.success
UploadDone(p, storeUp) ==
  /\ p \in ProcIds
  /\ procs[p].st = "uploading"
  /\ LET r == procs[p].rec
         s3Result == UploadFile(procs[p].path, storeUp)
     IN /\ recStatus' = [recStatus EXCEPT ![r] =
                IF @ = "absent" THEN @ ELSE CompletionStatus(s3Result)]
        /\ recFilePath' = [recFilePath EXCEPT ![r] =
                IF recStatus[r] = "absent" THEN @ ELSE CompletionFilePath(procs[p].path, s3Result)]
        /\ recS3Key' = [recS3Key EXCEPT ![r] =
                IF recStatus[r] = "absent" THEN @ ELSE s3Result.key]
        /\ files' = IF s3Result.success THEN files \ {procs[p].path} ELSE files
        /\ procs' = [procs EXCEPT ![p] = Exited(p)]
  /\ UNCHANGED <<recError, recTitle, activeRecordings, now, schVars, timers, pc, cRec,
                 cSnap, cSched, queue, tickNow, result, obsVars>>

\* ------------------------------------------------------------ SchedulerService
HomeTeam(m) == "Home"
AwayTeam(m) == "Away"

\* the title without the away team
MatchTitleHomeOnly(m) == <<HomeTeam(m)>>

\* const title = `${schedule.home_team} vs ${schedule.away_team}`
MatchTitle(m) == <<HomeTeam(m), " vs ", AwayTeam(m)>>

\* the WHERE clause of checkScheduledRecordings without its status condition
DueAnyStatus(s, t) ==
  schStart[s] <= t + Lookahead /\ schStart[s] > t

\* the query selecting failed schedules as well as pending ones
DueRetriesFailed(s, t) ==
  schStatus[s] \in {"pending", "failed"} /\ schStart[s] <= t + Lookahead /\ schStart[s] > t

\* the query with the window [now, now + 5 minutes)
DueFromNow(s, t) ==
  schStatus[s] = "pending" /\ schStart[s] >= t /\ schStart[s] < t + Lookahead

\* WHERE s.status = 'pending' AND s.scheduled_start <= $1 AND s.scheduled_start > $2
\* with $1 = now + 5 minutes and $2 = now
Due(s, t) ==
  schStatus[s] = "pending" /\ schStart[s] <= t + Lookahead /\ schStart[s] > t

\* the part of a selected row that can differ from the table later on
Row(s) == [id |-> s, recording_id |-> schRecId[s]]

\* the position of a dispatcher once executeScheduledRecording has returned
Finish(d) == IF d \in Ticks /\ queue[d] # {} THEN "tick" ELSE "idle"

\* checkScheduledRecordings: now is read and the query is run
TickBegin(t) ==
  /\ t \in Ticks
  /\ pc[t] = "idle"
  /\ LET due == {s \in Scheds : Due(s, now)}
     IN /\ queue' = [queue EXCEPT ![t] = {Row(s) : s \in due}]
        /\ pc' = [pc EXCEPT ![t] = IF due = {} THEN "idle" ELSE "tick"]
        /\ result' = [result EXCEPT ![t] = IF due = {} THEN "nothingDue" ELSE "none"]
  /\ tickNow' = [tickNow EXCEPT ![t] = now]
  /\ lateSeen' = [lateSeen EXCEPT ![t] =
                    {s \in Scheds : schStatus[s] = "pending" /\ schStart[s] < now}]
  /\ concurrent' = Forget(t)
  /\ UNCHANGED <<recVars, activeRecordings, procs, files, now, schVars, timers,
                 cRec, cSnap, cSched, startCalls, claimed>>

\* executeScheduledRecording(schedule), first statement:
\* UPDATE schedules SET status = 'executing', executed_at = ... WHERE id = $2
Claim(d, row) ==
  /\ schStatus' = [schStatus EXCEPT ![row.id] = "executing"]
  /\ claimed' = [claimed EXCEPT ![row.id] = @ \cup {d}]
  /\ cSched' = [cSched EXCEPT ![d] = row.id]
  /\ cRec' = [cRec EXCEPT ![d] = row.recording_id]
  /\ pc' = [pc EXCEPT ![d] = "resolve"]

\* for (const schedule of schedules) await this.executeScheduledRecording(schedule)
TickExec(t) ==
  /\ t \in Ticks
  /\ pc[t] = "tick"
  /\ \E row \in queue[t] :
       /\ Claim(t, row)
       /\ queue' = [queue EXCEPT ![t] = @ \ {row}]
  /\ UNCHANGED <<recVars, activeRecordings, procs, files, now, schRecId, schMatch, schAuto, matchAutoRecord,
                 schStart, schEnd, timers, cSnap, tickNow, result, startCalls,
                 lateSeen, concurrent>>

\* ScheduleController.executeSchedule: getSchedules(), find the row
ManualRead(m, s) ==
  /\ m \in Manuals
  /\ pc[m] = "idle"
  /\ pc' = [pc EXCEPT ![m] = "mcheck"]
  /\ cSched' = [cSched EXCEPT ![m] = s]
  /\ cSnap' = [cSnap EXCEPT ![m] = schStatus[s]]
  /\ cRec' = [cRec EXCEPT ![m] = schRecId[s]]
  /\ result' = [result EXCEPT ![m] = "none"]
  /\ concurrent' = Forget(m)
  /\ UNCHANGED <<recVars, activeRecordings, procs, files, now, schVars, timers,
                 queue, tickNow, startCalls, claimed, lateSeen>>

\* if (schedule.status !== 'pending') 400, else executeScheduledRecording(schedule)
ManualCheck(m) ==
  /\ m \in Manuals
  /\ pc[m] = "mcheck"
  /\ IF cSnap[m] # "pending"
       THEN /\ result' = [result EXCEPT ![m] = "NotPending"]
            /\ pc' = [pc EXCEPT ![m] = "idle"]
            /\ UNCHANGED <<schStatus, claimed, cSched, cRec>>
       ELSE /\ Claim(m, [id |-> cSched[m], recording_id |-> cRec[m]])
            /\ UNCHANGED result
  /\ cSnap' = [cSnap EXCEPT ![m] = "absent"]
  /\ UNCHANGED <<recVars, activeRecordings, procs, files, now, schRecId, schMatch, schAuto, matchAutoRecord,
                 schStart, schEnd, timers, queue, tickNow, startCalls, lateSeen,
                 concurrent>>

\* executeScheduledRecording, resolving the recording: getRecordingById for a
\* row with recording_id, createRecording for a row with match_id only,
\* otherwise (or when no row comes back) 'No recording found or created' and
\* the catch block marks the schedule failed.
ExecResolve(d) ==
  /\ d \in Dispatchers
  /\ pc[d] = "resolve"
  /\ LET s == cSched[d]
     IN IF cRec[d] # NoRec /\ recStatus[cRec[d]] # "absent"
          THEN /\ pc' = [pc EXCEPT ![d] = "start"]
               /\ UNCHANGED <<recStatus, recTitle, cRec, schStatus>>
          ELSE IF cRec[d] = NoRec /\ schMatch[s] # NoMatch
            THEN \E r \in Recs :
                   /\ recStatus[r] = "absent"
                   /\ recStatus' = [recStatus EXCEPT ![r] = "pending"]
                   /\ recTitle' = [recTitle EXCEPT ![r] = MatchTitle(schMatch[s])]
                   /\ cRec' = [cRec EXCEPT ![d] = r]
                   /\ pc' = [pc EXCEPT ![d] = "link"]
                   /\ UNCHANGED schStatus
            ELSE /\ schStatus' = [schStatus EXCEPT ![s] = "failed"]
                 /\ pc' = [pc EXCEPT ![d] = Finish(d)]
                 /\ UNCHANGED <<recStatus, recTitle, cRec>>
  /\ UNCHANGED <<recFilePath, recS3Key, recError, activeRecordings, procs, files,
                 now, schRecId, schMatch, schAuto, matchAutoRecord, schStart, schEnd, timers, cSnap, cSched,
                 queue, tickNow, result, obsVars>>

\* UPDATE schedules SET recording_id = $1 WHERE id = $2
ExecLink(d) ==
  /\ d \in Dispatchers
  /\ pc[d] = "link"
  /\ schRecId' = [schRecId EXCEPT ![cSched[d]] = cRec[d]]
  /\ pc' = [pc EXCEPT ![d] = "start"]
  /\ UNCHANGED <<recVars, activeRecordings, procs, files, now, schStatus, schMatch, schAuto, matchAutoRecord,
                 schStart, schEnd, timers, cRec, cSnap, cSched, queue, tickNow,
                 result, obsVars>>

\* await recordingService.startRecording(recording), up to its first await;
\* when it throws, the catch block marks the schedule failed
ExecStart(d) ==
  /\ d \in Dispatchers
  /\ pc[d] = "start"
  /\ startCalls' = [startCalls EXCEPT ![cSched[d]] = @ + 1]
  /\ SvcStartEnter(d, cRec[d], Finish(d))
  /\ schStatus' = [schStatus EXCEPT ![cSched[d]] =
                     IF AlreadyActive(cRec[d]) THEN "failed" ELSE @]
  /\ UNCHANGED <<now, schRecId, schMatch, schAuto, matchAutoRecord, schStart, schEnd, timers, cSnap, cSched,
                 queue, tickNow, claimed, lateSeen>>

\* scheduleRecordingStop(recordingId, stopTime): delay = stopTime - now,
\* setTimeout only if delay > 0.  The callback has recordingId only; proc is an
\* observation, the process the arming dispatch has just launched.
ArmStop(r, stopTime) ==
  IF stopTime # NoTime /\ stopTime - now > 0
    THEN timers \cup {[rec |-> r, at |-> stopTime, proc |-> Len(procs) + 1]}
    ELSE timers

\* startRecording runs the command and returns; scheduleRecordingStop; then
\* UPDATE schedules SET status = 'active'
ExecLaunch(d) ==
  /\ d \in Dispatchers
  /\ pc[d] = "launch"
  /\ SvcLaunchEff(d)
  /\ timers' = ArmStop(cRec[d], schEnd[cSched[d]])
  /\ schStatus' = [schStatus EXCEPT ![cSched[d]] = "active"]
  /\ pc' = [pc EXCEPT ![d] = Finish(d)]
  /\ UNCHANGED <<recVars, activeRecordings, files, now, schRecId, schMatch, schAuto, matchAutoRecord,
                 schStart, schEnd, cRec, cSnap, cSched, queue, tickNow, obsVars>>

\* the setTimeout callback of scheduleRecordingStop: stopRecording(recordingId),
\* a failure is logged
TimerFire(tm) ==
  /\ tm \in timers
  /\ now >= tm.at
  /\ timers' = timers \ {tm}
  /\ StopRecording(tm.rec)
  /\ UNCHANGED <<files, now, schVars, pc, cRec, cSnap, cSched, queue, tickNow,
                 result, obsVars>>

\* ------------------------------------------ dispatch with failing database writes
\* The catch block of executeScheduledRecording for schedule s: UPDATE schedules
\* SET status = 'failed'.  When that write is rejected too (catchOk false) the
\* rejection leaves executeScheduledRecording and the for loop of
\* checkScheduledRecordings, whose catch logs it: the rows not yet executed
\* are dropped.  rest is the list of rows still to execute.
CatchFailed(t, s, rest, catchOk) ==
  IF catchOk
    THEN /\ schStatus' = [schStatus EXCEPT ![s] = "failed"]
         /\ queue' = [queue EXCEPT ![t] = rest]
         /\ pc' = [pc EXCEPT ![t] = IF rest # {} THEN "tick" ELSE "idle"]
         /\ result' = [result EXCEPT ![t] = "dispatchFailed"]
    ELSE /\ UNCHANGED schStatus
         /\ queue' = [queue EXCEPT ![t] = {}]
         /\ pc' = [pc EXCEPT ![t] = "idle"]
         /\ result' = [result EXCEPT ![t] = "tickAborted"]

\* executeScheduledRecording(row) whose first write, UPDATE ... 'executing',
\* is rejected by the database
ClaimFault(t, row, catchOk) ==
  /\ t \in Ticks
  /\ pc[t] = "tick"
  /\ row \in queue[t]
  /\ cSched' = [cSched EXCEPT ![t] = row.id]
  /\ cRec' = [cRec EXCEPT ![t] = row.recording_id]
  /\ CatchFailed(t, row.id, queue[t] \ {row}, catchOk)
  /\ UNCHANGED <<recVars, activeRecordings, procs, files, now, schRecId, schMatch,
                 schStart, schEnd, schAuto, matchAutoRecord, timers, cSnap, tickNow,
                 obsVars>>

\* startRecording has run the command and returned, the deferred stop is
\* armed, and the write UPDATE ... 'active' is rejected by the database
ActiveFault(t, catchOk) ==
  /\ t \in Ticks
  /\ pc[t] = "launch"
  /\ Len(procs) < MaxProcs
  /\ procs' = Append(procs, NewProc(cRec[t]))
  /\ timers' = ArmStop(cRec[t], schEnd[cSched[t]])
  /\ CatchFailed(t, cSched[t], queue[t], catchOk)
  /\ UNCHANGED <<recVars, activeRecordings, files, now, schRecId, schMatch, schStart,
                 schEnd, schAuto, matchAutoRecord, cRec, cSnap, cSched, tickNow, obsVars>>

\* --------------------------------------------- schedules and matches: creation
\* matchData.utcDate of a match of the football API (matches.match_date)
MatchDate(m) == 6

\* the row INSERT INTO schedules writes: status 'pending', the other columns
\* as given, recording_id and auto_generated NULL/false unless given
InsertSchedule(s, m, r, start, end, auto) ==
  /\ schStatus[s] = "absent"
  /\ schStatus' = [schStatus EXCEPT ![s] = "pending"]
  /\ schMatch' = [schMatch EXCEPT ![s] = m]
  /\ schRecId' = [schRecId EXCEPT ![s] = r]
  /\ schStart' = [schStart EXCEPT ![s] = start]
  /\ schEnd' = [schEnd EXCEPT ![s] = end]
  /\ schAuto' = [schAuto EXCEPT ![s] = auto]

\* POST /schedules -> ScheduleController.createSchedule ->
\* SchedulerService.createSchedule(scheduleData): the INSERT, nothing else
CreateSchedule(s, m, start, end) ==
  /\ InsertSchedule(s, m, NoRec, start, end, FALSE)
  /\ UNCHANGED <<recVars, activeRecordings, procs, files, now, matchAutoRecord, timers,
                 pc, cRec, cSnap, cSched, queue, tickNow, result, obsVars>>

\* MatchController: UPDATE matches SET auto_record = $2 WHERE id = $1
SetAutoRecord(m, flag) ==
  /\ matchAutoRecord' = [matchAutoRecord EXCEPT ![m] = flag]
  /\ UNCHANGED <<recVars, activeRecordings, procs, files, now, schStatus, schRecId,
                 schMatch, schStart, schEnd, schAuto, timers, pc, cRec, cSnap, cSched,
                 queue, tickNow, result, obsVars>>

\* processMatch(matchData) for a match that exists: its row is updated from
\* the API data, then SELECT auto_record; createAutoSchedule is called only
\* if it is set.  cSnap holds the match the run works on.
GenRead(g, m) ==
  /\ g \in Generators
  /\ pc[g] = "idle"
  /\ IF matchAutoRecord[m]
       THEN /\ pc' = [pc EXCEPT ![g] = "gcheck"]
            /\ cSnap' = [cSnap EXCEPT ![g] = m]
            /\ result' = [result EXCEPT ![g] = "none"]
       ELSE /\ result' = [result EXCEPT ![g] = "autoRecordOff"]
            /\ UNCHANGED <<pc, cSnap>>
  /\ UNCHANGED <<recVars, activeRecordings, procs, files, now, schVars, timers,
                 cRec, cSched, queue, tickNow, obsVars>>

\* SELECT id FROM schedules WHERE match_id = $1 AND status IN ('pending', 'active')
ExistingSchedule(m) ==
  {s \in Scheds : schMatch[s] = m /\ schStatus[s] \in {"pending", "active"}}

\* createAutoSchedule, the check: return when a row came back
GenCheck(g) ==
  /\ g \in Generators
  /\ pc[g] = "gcheck"
  /\ IF ExistingSchedule(cSnap[g]) # {}
       THEN /\ pc' = [pc EXCEPT ![g] = "idle"]
            /\ cSnap' = [cSnap EXCEPT ![g] = "absent"]
            /\ result' = [result EXCEPT ![g] = "exists"]
       ELSE /\ pc' = [pc EXCEPT ![g] = "ginsert"]
            /\ UNCHANGED <<cSnap, result>>
  /\ UNCHANGED <<recVars, activeRecordings, procs, files, now, schVars, timers,
                 cRec, cSched, queue, tickNow, obsVars>>

\* createAutoSchedule, the INSERT: (match_id, utcDate - 5 minutes,
\* utcDate + 2 hours, 'pending', true)
GenInsert(g, s) ==
  /\ g \in Generators
  /\ pc[g] = "ginsert"
  /\ InsertSchedule(s, cSnap[g], NoRec, MatchDate(cSnap[g]) - AutoStartLead,
                    MatchDate(cSnap[g]) + AutoEndLag, TRUE)
  /\ pc' = [pc EXCEPT ![g] = "idle"]
  /\ cSnap' = [cSnap EXCEPT ![g] = "absent"]
  /\ result' = [result EXCEPT ![g] = "created"]
  /\ UNCHANGED <<recVars, activeRecordings, procs, files, now, matchAutoRecord, timers,
                 cRec, cSched, queue, tickNow, obsVars>>

\* ------------------------------------------------------------------ clock
AdvanceTime ==
  /\ now < MaxTime
  /\ now' = now + 1
  /\ UNCHANGED <<recVars, activeRecordings, procs, files, schVars, timers, pc,
                 cRec, cSnap, cSched, queue, tickNow, result, obsVars>>

\* --------------------------------------------------------- specifications
ProcEvents ==
  \E p \in 1..MaxProcs :
    \/ OnStart(p)
    \/ OnError(p)
    \/ OnEnd(p)
    \/ \E storeUp \in BOOLEAN : UploadDone(p, storeUp)

ApiCalls ==
  \E c \in ApiCallers :
    \/ \E r \in Recs : CtlStartRead(c, r)
    \/ CtlStartCheck(c)
    \/ ApiLaunch(c)
    \/ \E r \in Recs : ApiStop(c, r)

Next == ApiCalls \/ ProcEvents \/ AdvanceTime

Spec == InitService /\ [][Next]_vars

\* The recordings API with captures that report progress.
Progress == \E p \in 1..MaxProcs : OnProgress(p)

NextWatchdog == Next \/ Progress

SpecWatchdog == InitService /\ [][NextWatchdog]_vars

\* The recordings API with what the event loop guarantees: a request that has
\* been received runs to its answer, an upload that was started returns, the
\* clock advances.  Nothing makes an ffmpeg process emit 'start', 'error' or
\* 'end': that is up to the process.
Continuations ==
  \E c \in ApiCallers : CtlStartCheck(c) \/ ApiLaunch(c)

Uploads ==
  \E p \in 1..MaxProcs : \E storeUp \in BOOLEAN : UploadDone(p, storeUp)

SpecFair ==
  /\ InitService
  /\ [][Next]_vars
  /\ WF_vars(Continuations)
  /\ WF_vars(Uploads)
  /\ WF_vars(AdvanceTime)

\* Schedules S1 (bound to recording R1) and S2 (bound to match M1, or to R1
\* as well, or to neither: both columns are optional), with start times at
\* the edges of the lookahead window.
InitSchedules ==
  /\ InitCommon
  /\ schStatus = [s \in Scheds |-> "pending"]
  /\ \E ref \in {"M1", "R1", "none"} :
       /\ schRecId = [s \in Scheds |-> IF s = "S1" \/ ref = "R1" THEN "R1" ELSE NoRec]
       /\ schMatch = [s \in Scheds |-> IF s = "S2" /\ ref = "M1" THEN "M1" ELSE NoMatch]
  /\ \E a \in {0, 1} : \E b \in {Lookahead, Lookahead + 1} :
       schStart = [s \in Scheds |-> IF s = "S1" THEN a ELSE b]
  /\ \E e \in {NoTime, 1} :
       schEnd = [s \in Scheds |-> IF s = "S1" THEN e ELSE NoTime]

Timers == \E tm \in timers : TimerFire(tm)

\* The cron callback never overlapping itself: a tick begins only when no
\* dispatch is in progress; no execute-now request.
TickBeginSeq(t) ==
  /\ \A d \in Dispatchers : pc[d] = "idle"
  /\ TickBegin(t)

DispatchSeq ==
  \E d \in Ticks :
    \/ TickExec(d)
    \/ ExecResolve(d)
    \/ ExecLink(d)
    \/ ExecStart(d)
    \/ ExecLaunch(d)

NextSeq ==
  \/ \E t \in Ticks : TickBeginSeq(t)
  \/ DispatchSeq
  \/ Timers
  \/ ProcEvents
  \/ AdvanceTime

SpecSeq == InitSchedules /\ [][NextSeq]_vars

\* Ticks that run one after the other, with a database that may reject the
\* writes of a dispatch.
Faults ==
  \E t \in Ticks : \E catchOk \in BOOLEAN :
    \/ \E row \in queue[t] : ClaimFault(t, row, catchOk)
    \/ ActiveFault(t, catchOk)

NextFault == NextSeq \/ Faults

SpecFault == InitSchedules /\ [][NextFault]_vars

\* Dispatch actors that overlap: two invocations of the cron callback and an
\* execute-now request, at one instant, with S1 and S2 both due.
InitOverlap ==
  /\ InitCommon
  /\ schStatus = [s \in Scheds |-> "pending"]
  /\ schRecId = [s \in Scheds |-> IF s = "S1" THEN "R1" ELSE NoRec]
  /\ schMatch = [s \in Scheds |-> IF s = "S2" THEN "M1" ELSE NoMatch]
  /\ schStart = [s \in Scheds |-> IF s = "S1" THEN 1 ELSE Lookahead]
  /\ schEnd = [s \in Scheds |-> NoTime]

Dispatch ==
  \E d \in Dispatchers :
    \/ TickExec(d)
    \/ \E s \in Scheds : ManualRead(d, s)
    \/ ManualCheck(d)
    \/ ExecResolve(d)
    \/ ExecLink(d)
    \/ ExecStart(d)
    \/ ExecLaunch(d)

NextOverlap ==
  \/ \E t \in Ticks : TickBegin(t)
  \/ Dispatch
  \/ ProcEvents

SpecOverlap == InitOverlap /\ [][NextOverlap]_vars

\* Schedules being created, by hand and by the hourly match fetcher, while
\* the cron callback dispatches them: no schedule row exists at first.
InitCreate ==
  /\ InitCommon
  /\ schStatus = [s \in Scheds |-> "absent"]
  /\ schRecId = [s \in Scheds |-> NoRec]
  /\ schMatch = [s \in Scheds |-> NoMatch]
  /\ schStart = [s \in Scheds |-> 0]
  /\ schEnd = [s \in Scheds |-> NoTime]

Creation ==
  \/ \E s \in Scheds : \E m \in Matches : \E start \in {1, Lookahead + 1} :
       CreateSchedule(s, m, start, NoTime)
  \/ \E m \in Matches : \E flag \in BOOLEAN : SetAutoRecord(m, flag)
  \/ \E g \in Generators :
       \/ \E m \in Matches : GenRead(g, m)
       \/ GenCheck(g)
       \/ \E s \in Scheds : GenInsert(g, s)

NextCreate ==
  \/ Creation
  \/ \E t \in Ticks : TickBeginSeq(t)
  \/ DispatchSeq
  \/ ProcEvents

SpecCreate == InitCreate /\ [][NextCreate]_vars

\* ------------------------------------------------------------- properties

\* C1: in every reachable state each recording identifier has at most one
\* running capture process (and at most one registered, the registry being a
\* map): a Start while a capture is active launches no second process.
C1_AtMostOneCapture ==
  \A r \in Recs : Cardinality(Running(r)) <= 1

\* C2: of two startRecording calls for one identifier that overlapped, once
\* both have returned exactly one succeeded and the other got AlreadyActive,
\* so exactly one of them launched a capture process.
C2_ConcurrentStartsAdmitOne ==
  \A c \in Callers : \A d \in Callers \ {c} :
    ({c, d} \in concurrent /\ pc[c] # "launch" /\ pc[d] # "launch"
       /\ result[c] # "none" /\ result[d] # "none")
      => {result[c], result[d]} = {"ok", "AlreadyActive"}

\* C3: once the persisted state of a recording is Completed, Failed or
\* Stopped it never changes again.
C3_TerminalIsFinal ==
  [][\A r \in Recs : recStatus[r] \in Terminal => recStatus'[r] = recStatus[r]]_vars

\* C4: a Stop for an identifier without registry entry answers NotActive and
\* changes nothing: no process is signalled, the registry, the recordings
\* rows and the files are as before.
C4_StopNotActiveNoEffect ==
  [][\A c \in ApiCallers : \A r \in Recs :
       (ApiStop(c, r) /\ activeRecordings[r] = 0)
         => /\ result'[c] = "NotActive"
            /\ UNCHANGED <<procs, activeRecordings, recVars, files, timers, schVars>>]_vars

\* C4 happens: a Stop for R2, which has no entry, was answered NotActive while
\* the capture of R1 is registered and running.
C4_Witness ==
  \E c \in ApiCallers :
    /\ result[c] = "NotActive" /\ cRec[c] = "R2"
    /\ activeRecordings["R1"] # 0
    /\ procs[activeRecordings["R1"]].st = "running"
    /\ recStatus["R1"] = "recording"

\* C5: a Start on a recording whose persisted state is Completed, from the
\* API as from the dispatcher, answers AlreadyTerminal, launches nothing and
\* leaves the state Completed.
C5_StartOnCompletedRejected ==
  [][\A c \in Callers :
       ((CtlStartCheck(c) \/ ExecStart(c)) /\ recStatus[cRec[c]] = "completed")
         => /\ result'[c] = "AlreadyTerminal"
            /\ pc'[c] # "launch"
            /\ recStatus'[cRec[c]] = "completed"]_vars

\* C6: of the dispatch actors working on one Pending schedule at most one
\* claims it (Pending -> Executing) and calls Start for it.
C6_SingleClaim ==
  \A s \in Scheds : Cardinality(claimed[s]) <= 1 /\ startCalls[s] <= 1

\* C7: with ticks that run one after the other, Start is called at most once
\* per schedule.
C7_NoDoubleDispatch ==
  \A s \in Scheds : startCalls[s] <= 1

\* C7 happens: tick t1 dispatched schedule s, tick t2 then ran at the same
\* instant with s still inside its window and found nothing due.
C7_Witness ==
  \E s \in Scheds :
    /\ pc["t1"] = "idle" /\ pc["t2"] = "idle"
    /\ claimed[s] = {"t1"}
    /\ startCalls[s] = 1
    /\ schStatus[s] = "active"
    /\ result["t2"] = "nothingDue"
    /\ tickNow["t2"] = tickNow["t1"]
    /\ DueAnyStatus(s, tickNow["t2"])

\* C8: a Pending schedule whose start is already past when a tick begins is
\* executed by that tick, once: when the tick has finished the schedule is
\* Active and Start was called once for it.
C8_LateScheduleExecuted ==
  \A t \in Ticks : \A s \in Scheds :
    (s \in lateSeen[t] /\ pc[t] = "idle")
      => (schStatus[s] = "active" /\ startCalls[s] = 1)

\* C9: when the capture ended normally and the upload succeeded, the row is
\* Completed with a remote locator and no local path, and the file is gone.
C9_UploadedHasNoLocalPath ==
  [][\A p \in 1..MaxProcs :
       (UploadDone(p, TRUE) /\ procs[p].path \in files)
         => /\ recStatus'[procs[p].rec] = "completed"
            /\ recS3Key'[procs[p].rec] # NULL
            /\ recFilePath'[procs[p].rec] = NULL
            /\ procs[p].path \notin files']_vars

\* C10: when the capture ended normally and the upload returned a failure,
\* the row is Failed with the error recorded, the file is still on disk, the
\* local path is set and the registry entry is gone.
C10_UploadFailureIsFailed ==
  [][\A p \in 1..MaxProcs :
       (UploadDone(p, FALSE) /\ procs[p].path \in files)
         => /\ recStatus'[procs[p].rec] = "failed"
            /\ recError'[procs[p].rec] # NoError
            /\ procs[p].path \in files'
            /\ recFilePath'[procs[p].rec] # NULL]_vars

\* C11: a capture that has run longer than the maximum duration is stopped by
\* the watchdog, and the row then is Stopped with the reason 'max duration
\* exceeded' recorded on it.
C11_WatchdogStopsWithReason ==
  [][\A p \in 1..MaxProcs :
       (OnProgress(p) /\ ~StopMissing(procs[p].rec))
         => /\ recStatus'[procs[p].rec] = "stopped"
            /\ recError'[procs[p].rec] = "max duration exceeded"]_vars

\* C12: when the exit event ('error' or 'end') of a process that Stop has
\* signalled is handled and the row is Stopped, the row is still Stopped
\* afterwards.
C12_StoppedSurvivesExit ==
  [][\A p \in 1..MaxProcs :
       ((OnError(p) \/ OnEnd(p)) /\ procs[p].st = "signalled"
          /\ recStatus[procs[p].rec] = "stopped")
         => recStatus'[procs[p].rec] = "stopped"]_vars

\* C13: while the upload of a finished capture is in progress the registry
\* holds the identifier of its recording.
C13_RegisteredDuringUpload ==
  \A p \in ProcIds :
    procs[p].st = "uploading" => activeRecordings[procs[p].rec] # 0

\* C14: when Start returns success the row is Recording and the registry holds
\* the identifier.
C14_RegisteredOnReturn ==
  [][\A c \in Callers :
       (ApiLaunch(c) \/ ExecLaunch(c))
         => /\ recStatus'[cRec[c]] = "recording"
            /\ activeRecordings'[cRec[c]] # 0]_vars

\* C15: when the 'error' event of a capture process is handled while the row
\* of its recording is Recording, the row becomes Failed with the error
\* message on it and the registry entry of the identifier is gone.
C15_AbnormalExitFails ==
  [][\A p \in 1..MaxProcs :
       (OnError(p) /\ recStatus[procs[p].rec] = "recording")
         => /\ recStatus'[procs[p].rec] = "failed"
            /\ recError'[procs[p].rec] = "ffmpeg error"
            /\ activeRecordings'[procs[p].rec] = 0]_vars

\* C15 happens: the only capture ever launched, never stopped by anyone, has
\* exited on 'error'; its recording is Failed with the message, unregistered.
C15_Witness ==
  /\ Len(procs) = 1
  /\ procs[1].st = "exited"
  /\ \A c \in ApiCallers : result[c] \in {"none", "ok"}
  /\ recStatus[procs[1].rec] = "failed"
  /\ recError[procs[1].rec] = "ffmpeg error"
  /\ activeRecordings[procs[1].rec] = 0

\* C16: the step that ends the dispatch of a schedule leaves it Active when
\* Start returned success and Failed otherwise (Start threw, or no recording
\* was resolved); and with ticks that run one after the other a Failed
\* schedule stays Failed and Start is not called for it again.
C16_DispatchOutcome ==
  [][/\ \A d \in Dispatchers :
          (pc[d] \in {"resolve", "start", "launch"} /\ pc'[d] \in {"idle", "tick"})
            => schStatus'[cSched[d]] = IF pc[d] = "launch" THEN "active" ELSE "failed"
     /\ \A s \in Scheds :
          schStatus[s] = "failed"
            => (schStatus'[s] = "failed" /\ startCalls'[s] = startCalls[s])]_vars

\* C16 happens: S1 was dispatched and is Active, S2 was dispatched by the same
\* or another tick and is Failed (Start threw, or nothing to resolve), and a
\* tick that began afterwards with S2 still inside its window found nothing due.
C16_Witness ==
  /\ \A d \in Dispatchers : pc[d] = "idle"
  /\ schStatus["S1"] = "active"
  /\ schStatus["S2"] = "failed"
  /\ \E t \in Ticks :
       /\ result[t] = "nothingDue"
       /\ t \notin claimed["S2"]
       /\ DueAnyStatus("S2", tickNow[t])

\* C17: each match has at most one schedule that is Pending, Executing or
\* Active.
C17_OneOpenSchedulePerMatch ==
  \A m \in Matches :
    Cardinality({s \in Scheds : schMatch[s] = m
                   /\ schStatus[s] \in {"pending", "executing", "active"}}) <= 1

\* C18: a run of the generator goes on to createAutoSchedule exactly when the
\* match has auto-record set, and inserts exactly when the match has no
\* Pending, Executing or Active schedule; the row inserted is Pending,
\* auto-generated, from 5 minutes before kickoff to 2 hours after it.
C18_GeneratorCreatesIffNeeded ==
  [][\A g \in Generators :
       /\ \A m \in Matches :
            GenRead(g, m) => (pc'[g] = "gcheck" <=> matchAutoRecord[m])
       /\ GenCheck(g)
            => (pc'[g] = "ginsert"
                  <=> {s \in Scheds : schMatch[s] = cSnap[g]
                         /\ schStatus[s] \in {"pending", "executing", "active"}} = {})
       /\ \A s \in Scheds :
            GenInsert(g, s)
              => /\ schStatus'[s] = "pending" /\ schAuto'[s]
                 /\ schMatch'[s] = cSnap[g]
                 /\ schStart'[s] = MatchDate(cSnap[g]) - 5
                 /\ schEnd'[s] = MatchDate(cSnap[g]) + 120]_vars

\* C19: when the dispatch of a schedule that has a scheduled end returns from
\* a successful Start, a deferred stop of its recording is pending for that
\* end time.
C19_DeferredStopArmed ==
  [][\A d \in Dispatchers :
       (ExecLaunch(d) /\ schEnd[cSched[d]] # NoTime)
         => \E tm \in timers' : tm.rec = cRec[d] /\ tm.at = schEnd[cSched[d]]]_vars

C21_CompletedHasLocation ==
  \A r \in Recs :
    recStatus[r] = "completed" => (recFilePath[r] # NULL \/ recS3Key[r] # NULL)

\* C21 happens: a recording is Completed after an upload that failed, so its
\* row has no storage key; it has the local path.
C21_Witness ==
  \E r \in Recs :
    /\ recStatus[r] = "completed"
    /\ recS3Key[r] = NULL
    /\ recFilePath[r] # NULL
    /\ recFilePath[r] \in files

\* C22: every registry entry is the entry of a capture process of that
\* identifier that is running or whose upload is pending; none is left for a
\* process that has been signalled or has exited.
C22_EntryHasLiveProcess ==
  \A r \in Recs :
    activeRecordings[r] # 0
      => /\ activeRecordings[r] \in ProcIds
         /\ procs[activeRecordings[r]].rec = r
         /\ procs[activeRecordings[r]].st \in {"running", "uploading"}

\* C22 happens: a capture that was registered has run to its end and its
\* upload is done, and the registry has no entry for its recording.
C22_Witness ==
  \E p \in ProcIds :
    /\ procs[p].st = "exited"
    /\ recStatus[procs[p].rec] = "completed"
    /\ activeRecordings[procs[p].rec] = 0

\* C23: for an identifier with no Start in progress (no caller between its
\* read and its return, no process launched and not yet registered), no Stop
\* in progress (no signalled process still to exit) and no completion handler
\* in progress (no upload pending), the row is Recording exactly when the
\* registry holds the identifier.
C23_StatusAgreesWithRegistry ==
  \A r \in Recs :
    (/\ \A c \in Callers : cRec[c] = r => pc[c] \in {"idle", "tick"}
     /\ \A p \in ProcIds : procs[p].rec = r => procs[p].st \in {"running", "exited"})
      => (recStatus[r] = "recording" <=> activeRecordings[r] # 0)

\* C27: a Start that the service rejects because the identifier is in the
\* registry changes nothing of the active capture: the registry, the
\* processes, the state of the row and its error message are as before.
C27_RejectedStartNoEffect ==
  [][\A c \in Callers :
       (/\ \/ (CtlStartCheck(c) /\ cSnap[c] \notin {"absent", "recording", "completed"})
           \/ ExecStart(c)
        /\ AlreadyActive(cRec[c]))
         => UNCHANGED <<activeRecordings, procs, recStatus, recError>>]_vars

\* C28: the 'error' or 'end' event of a process that Stop has signalled, handled
\* while the registry holds a later process of the same identifier, leaves
\* that entry and the state of the row as they are.
C28_LateExitLeavesNewCapture ==
  [][\A p \in 1..MaxProcs :
       (/\ OnError(p) \/ OnEnd(p)
        /\ procs[p].st = "signalled"
        /\ activeRecordings[procs[p].rec] \notin {0, p})
         => /\ activeRecordings'[procs[p].rec] = activeRecordings[procs[p].rec]
            /\ recStatus'[procs[p].rec] = recStatus[procs[p].rec]]_vars

\* C30: a deferred stop that fires after the capture its dispatch launched
\* has ended stops nothing: a later capture of the same recording keeps its
\* process, its registry entry and its state.
C30_DeferredStopOwnCapture ==
  [][\A tm \in timers :
       (TimerFire(tm) /\ procs[tm.proc].st = "exited")
         => UNCHANGED <<procs, activeRecordings, recStatus>>]_vars

\* C25: resolving the recording of a dispatched schedule.  A schedule with a
\* recording creates no row and goes on to Start; a schedule with a match only
\* creates exactly one row, titled '<home> vs <away>', which the next step
\* links to the schedule; a schedule with neither becomes Failed, no row is
\* created and Start is not reached.  Start is then called for the schedule's
\* recording.
C25_ResolveRecording ==
  [][\A d \in Dispatchers :
       LET s == cSched[d]
           created == {r \in Recs : recStatus[r] = "absent" /\ recStatus'[r] # "absent"}
       IN /\ (ExecResolve(d) /\ schRecId[s] # NoRec)
               => (created = {} /\ pc'[d] = "start" /\ cRec'[d] = schRecId[s])
          /\ (ExecResolve(d) /\ schRecId[s] = NoRec /\ schMatch[s] # NoMatch)
               => /\ Cardinality(created) = 1
                  /\ cRec'[d] \in created
                  /\ recTitle'[cRec'[d]] = <<"Home", " vs ", "Away">>
                  /\ pc'[d] = "link"
          /\ ExecLink(d) => (schRecId'[s] = cRec[d] /\ pc'[d] = "start")
          /\ (ExecResolve(d) /\ schRecId[s] = NoRec /\ schMatch[s] = NoMatch)
               => /\ created = {}
                  /\ schStatus'[s] = "failed"
                  /\ pc'[d] \in {"idle", "tick"}
                  /\ startCalls'[s] = 0
          /\ ExecStart(d) => (cRec[d] = schRecId[s] /\ startCalls'[s] = startCalls[s] + 1)]_vars

\* C25 happens: S1, which references recording R1, and S2, which references
\* match M1 only, have both been dispatched: R1 and the new recording R2,
\* titled from the teams and linked to S2, are both Recording.
C25_Witness ==
  /\ schStatus["S1"] = "active" /\ schRecId["S1"] = "R1" /\ recStatus["R1"] = "recording"
  /\ schStatus["S2"] = "active" /\ schMatch["S2"] = "M1" /\ schRecId["S2"] = "R2"
  /\ recTitle["R2"] = <<"Home", " vs ", "Away">>
  /\ recStatus["R2"] = "recording"
  /\ Len(procs) = 2

\* C24: a row a tick selected leaves the tick's list only when the tick takes
\* it up for dispatch: the failure of one dispatch drops no other row.
C24_FailureSkipsNoSchedule ==
  [][\A t \in Ticks : \A row \in queue[t] :
       row \notin queue'[t] => cSched'[t] = row.id]_vars

\* C29: Executing is transient: a schedule is Executing only while a dispatch
\* is working on it.
C29_ExecutingHasDispatcher ==
  \A s \in Scheds :
    schStatus[s] = "executing"
      => \E d \in Dispatchers :
           cSched[d] = s /\ pc[d] \in {"resolve", "link", "start", "launch"}

\* C26: a capture process that Stop has signalled is eventually no longer
\* running, whether or not it reacts to the signal.
C26_StoppedProcessExits ==
  \A p \in 1..MaxProcs :
    (p \in ProcIds /\ procs[p].st = "signalled")
      ~> (p \in ProcIds /\ procs[p].st # "signalled")

====
